---- MODULE Spec2Model ----
(***************************************************************************)
(* Model of the casino ETL pipeline (src/gaming-etl.py): argument parsing  *)
(* in main, create_target_table, extract_data, transform_data, load_data   *)
(* and the gold_summary table with its natural-key unique constraint.      *)
(*                                                                         *)
(* Representation.                                                         *)
(*   - A text value is a tuple of one-character strings, so that trim,     *)
(*     upper and strptime are computed character by character.             *)
(*   - A nullable value is <<>> (SQL NULL / None / NaN) or <<v>>.          *)
(*   - A date is its day number (days since 1970-01-01).                   *)
(*   - Money is an integer; eurorate is in hundredths, so ggr_eur and      *)
(*     returns_eur are in hundredths of a euro (exact arithmetic).         *)
(*   - current_timestamp of run n is n.                                    *)
(***************************************************************************)
EXTENDS Integers, Sequences, FiniteSets, TLC

VARIABLES
    argv,            \* sys.argv[1:], fixed for the behaviour
    casinodaily,     \* source table casinodaily, fixed (unchanged source data)
    pc,              \* position of main
    start_date,      \* nullable text
    end_date,        \* nullable text
    connOpen,        \* conn is an open connection
    called,          \* stages entered in the current run
    tableExists,     \* gold_summary exists
    gold,            \* committed rows of gold_summary
    tx,              \* rows of gold_summary as seen by the open transaction
    nextid,          \* next value of the serial sequence behind id
    df,              \* result of extract_data
    df_transformed,  \* result of transform_data
    page,            \* number of records already sent by execute_values
    exitcode,        \* -1 while running, else the process exit status
    runs,            \* number of the current run (also its timestamp)
    goldAtStart,     \* gold when the current run started
    runlog,          \* one entry per finished run
    err              \* the error main reported, "" if none

vars == <<argv, casinodaily, pc, start_date, end_date, connOpen, called,
          tableExists, gold, tx, nextid, df, df_transformed, page,
          exitcode, runs, goldAtStart, runlog, err>>

-----------------------------------------------------------------------------
(* Bounds *)

MaxArgs == 3
MaxRows == 3
MaxRuns == 2
PageSize == 2   \* page_size of execute_values (1000 in the source), scaled

-----------------------------------------------------------------------------
(* Nullable values *)

None == <<>>
Some(v) == <<v>>
IsNull(o) == o = <<>>
Val(o) == o[1]

-----------------------------------------------------------------------------
(* Text *)

LowerChars == <<"a","b","c","d","e","f","g","h","i","j","k","l","m",
                "n","o","p","q","r","s","t","u","v","w","x","y","z">>
UpperChars == <<"A","B","C","D","E","F","G","H","I","J","K","L","M",
                "N","O","P","Q","R","S","T","U","V","W","X","Y","Z">>
DigitChars == <<"0","1","2","3","4","5","6","7","8","9">>

IsLower(c) == \E i \in 1..26 : LowerChars[i] = c

upperChar(c) ==
    IF IsLower(c) THEN UpperChars[CHOOSE i \in 1..26 : LowerChars[i] = c]
    ELSE c

\* str.upper()
str_upper(s) == [i \in 1..Len(s) |-> upperChar(s[i])]

\* characters removed by str.strip() with no argument
PyWhitespace == {" ", "\t", "\n"}

RECURSIVE lstrip(_, _)
lstrip(s, ws) ==
    IF s # <<>> /\ Head(s) \in ws THEN lstrip(Tail(s), ws) ELSE s

RECURSIVE rstrip(_, _)
rstrip(s, ws) ==
    IF s # <<>> /\ s[Len(s)] \in ws THEN rstrip(SubSeq(s, 1, Len(s) - 1), ws)
    ELSE s

\* str.strip()
str_strip(s) == rstrip(lstrip(s, PyWhitespace), PyWhitespace)

\* SQL trim(x): removes spaces only
sql_trim(s) == rstrip(lstrip(s, {" "}), {" "})

-----------------------------------------------------------------------------
(* Dates *)

IsDigit(c) == \E i \in 1..10 : DigitChars[i] = c
DigitVal(c) == (CHOOSE i \in 1..10 : DigitChars[i] = c) - 1

IsLeap(y) == (y % 4 = 0 /\ y % 100 # 0) \/ y % 400 = 0

DaysInMonth(y, m) ==
    IF m = 2 THEN (IF IsLeap(y) THEN 29 ELSE 28)
    ELSE IF m \in {4, 6, 9, 11} THEN 30 ELSE 31

\* day number of a civil date (proleptic Gregorian), 1970-01-01 = 0
DaysFromCivil(y, m, d) ==
    LET yy  == IF m <= 2 THEN y - 1 ELSE y
        era == yy \div 400
        yoe == yy - era * 400
        mp  == IF m > 2 THEN m - 3 ELSE m + 9
        doy == (153 * mp + 2) \div 5 + d - 1
        doe == yoe * 365 + yoe \div 4 - yoe \div 100 + doy
    IN  era * 146097 + doe - 719468

ParseFail == [ok |-> FALSE, y |-> 0, m |-> 0, d |-> 0]

\* %m : 1[0-2] | 0[1-9] | [1-9], tried in this order at position p;
\* the result is the number of characters taken (0: no match)
MonthLen(s, p) ==
    IF p + 1 <= Len(s) /\ s[p] = "1" /\ s[p + 1] \in {"0", "1", "2"}
         /\ p + 2 <= Len(s) /\ s[p + 2] = "-" THEN 2
    ELSE IF p + 1 <= Len(s) /\ s[p] = "0" /\ IsDigit(s[p + 1])
         /\ s[p + 1] # "0" /\ p + 2 <= Len(s) /\ s[p + 2] = "-" THEN 2
    ELSE IF p <= Len(s) /\ IsDigit(s[p]) /\ s[p] # "0"
         /\ p + 1 <= Len(s) /\ s[p + 1] = "-" THEN 1
    ELSE 0

\* %d : 3[0-1] | [1-2]\d | 0[1-9] | [1-9] | " "[1-9], first alternative that
\* matches at position p (nothing follows %d in the format)
DayLen(s, p) ==
    IF p + 1 <= Len(s) /\ s[p] = "3" /\ s[p + 1] \in {"0", "1"} THEN 2
    ELSE IF p + 1 <= Len(s) /\ s[p] \in {"1", "2"} /\ IsDigit(s[p + 1]) THEN 2
    ELSE IF p + 1 <= Len(s) /\ s[p] = "0" /\ IsDigit(s[p + 1])
         /\ s[p + 1] # "0" THEN 2
    ELSE IF p <= Len(s) /\ IsDigit(s[p]) /\ s[p] # "0" THEN 1
    ELSE IF p + 1 <= Len(s) /\ s[p] = " " /\ IsDigit(s[p + 1])
         /\ s[p + 1] # "0" THEN 2
    ELSE 0

\* value of the digits of s[p .. p+n-1], a leading blank counting as nothing
RECURSIVE NumAt(_, _, _)
NumAt(s, p, n) ==
    IF n = 0 THEN 0
    ELSE 10 * NumAt(s, p, n - 1)
         + (IF IsDigit(s[p + n - 1]) THEN DigitVal(s[p + n - 1]) ELSE 0)

\* datetime.strptime(s, '%Y-%m-%d'): ok = FALSE stands for ValueError
strptime(s) ==
    IF ~(Len(s) >= 5 /\ (\A i \in 1..4 : IsDigit(s[i])) /\ s[5] = "-")
    THEN ParseFail
    ELSE LET ml == MonthLen(s, 6) IN
         IF ml = 0 THEN ParseFail
         ELSE LET dp == 6 + ml + 1
                  dl == DayLen(s, dp) IN
              IF dl = 0 THEN ParseFail
              ELSE IF dp + dl - 1 # Len(s) THEN ParseFail  \* unconverted data remains
              ELSE LET y == NumAt(s, 1, 4)
                       m == NumAt(s, 6, ml)
                       d == NumAt(s, dp, dl) IN
                   IF y < 1 \/ d > DaysInMonth(y, m) THEN ParseFail
                   ELSE [ok |-> TRUE, y |-> y, m |-> m, d |-> d]

\* %s::date of a string strptime accepted
ToDate(s) == LET t == strptime(s) IN DaysFromCivil(t.y, t.m, t.d)

-----------------------------------------------------------------------------
(* transform_data *)

bins == <<0, 18, 21, 27, 33, 41, 50, 999>>
labels == <<"Under 18", "18-20", "21-26", "27-32", "33-40", "41-50", "50+">>
NaN == "NaN"

\* bins.searchsorted(x, side='right') for x = num / den: how many bins <= x
searchsorted_right(num, den) ==
    Cardinality({i \in 1..Len(bins) : bins[i] * den <= num})

\* pd.cut with right=True (the default): bands (lo, hi]
cut_right_closed(num, den) ==
    LET ids == Cardinality({i \in 1..Len(bins) : bins[i] * den < num}) IN
    IF ids = 0 \/ ids = Len(bins) THEN NaN ELSE labels[ids]

\* pd.cut(x, bins, labels, right=False) for x = num / den
cut(num, den) ==
    LET ids == searchsorted_right(num, den) IN
    IF ids = 0 \/ ids = Len(bins) THEN NaN ELSE labels[ids]

\* age = days / 365.25 = 4 * days / 1461; the float quotient is on the same
\* side of every integer bin edge as the exact one (it equals an integer
\* only when the exact quotient does)
agegroup(date, birthdate) == cut(4 * (date - birthdate), 1461)

S_NOT_VIP   == <<"N","O","T"," ","V","I","P">>
S_POTENTIAL == <<"P","O","T","E","N","T","I","A","L">>
S_BRONZ_E   == <<"B","R","O","N","Z"," ","E">>
S_ELI_T_E   == <<"E","L","I"," ","T"," ","E">>
S_Not_VIP   == <<"N","o","t"," ","V","I","P">>
S_Potential == <<"P","o","t","e","n","t","i","a","l">>
S_Bronze    == <<"B","r","o","n","z","e">>
S_Elite     == <<"E","l","i","t","e">>

vip_mapping == << <<S_NOT_VIP, S_Not_VIP>>, <<S_POTENTIAL, S_Potential>>,
                  <<S_BRONZ_E, S_Bronze>>, <<S_ELI_T_E, S_Elite>> >>

\* Series.replace(dict) on one value
replace(v, mapping) ==
    IF \E i \in 1..Len(mapping) : mapping[i][1] = v
    THEN mapping[CHOOSE i \in 1..Len(mapping) : mapping[i][1] = v][2]
    ELSE v

\* normalisation without the upper-casing
normalize_vip_no_upper(raw) == replace(str_strip(raw), vip_mapping)

normalize_vip(raw) == replace(str_upper(str_strip(raw)), vip_mapping)

\* a missing factor taken as 1 (amount left unconverted)
mul_missing_as_one(a, b) ==
    IF IsNull(a) THEN None ELSE IF IsNull(b) THEN a ELSE Some(Val(a) * Val(b))

\* product of two nullable numbers: missing if either is missing
mul(a, b) == IF IsNull(a) \/ IsNull(b) THEN None ELSE Some(Val(a) * Val(b))

fillna(o, v) == IF IsNull(o) THEN Some(v) ELSE o

\* the name columns left as extracted
fill_name_none(o) == o

\* fillna('Unknown') on the two name columns
fill_name(o) == fillna(o, "Unknown")

transform_row(r) ==
    [date        |-> r.date,
     country     |-> r.country,
     sex         |-> r.sex,
     agegroup    |-> agegroup(r.date, r.birthdate),
     vipstatus   |-> normalize_vip(r.vipstatus),
     casinomanufacturername |-> fill_name(r.casinomanufacturername),
     casinoprovidername     |-> fill_name(r.casinoprovidername),
     ggr_eur     |-> Val(fillna(mul(r.ggr, r.eurorate), 0)),
     returns_eur |-> Val(fillna(mul(r.returns, r.eurorate), 0))]

\* an empty frame in gives an empty frame out
transform_data(d) ==
    IF d = <<>> THEN <<>> ELSE [i \in 1..Len(d) |-> transform_row(d[i])]

-----------------------------------------------------------------------------
(* Source tables.  casinodaily is a variable; the dimensions are fixed. *)

D1 == DaysFromCivil(2025, 3, 1)
D2 == DaysFromCivil(2025, 3, 10)

users ==
    { [user_id |-> 1, country |-> Some("DE"), sex |-> <<" ", "m">>,
       birthdate |-> DaysFromCivil(2000, 3, 10),
       vipstatus |-> <<" ","E","L","I","T","E"," ">>],
      [user_id |-> 2, country |-> None, sex |-> <<"f">>,
       birthdate |-> DaysFromCivil(1980, 1, 1),
       vipstatus |-> <<"b","r","o","n","z"," ","e">>] }

casinomanufacturers ==
    { [casinomanufacturerid |-> 1, casinomanufacturername |-> "NetEnt",
       latestflag |-> 1],
      [casinomanufacturerid |-> 1, casinomanufacturername |-> "NetEnt AB",
       latestflag |-> 0],
      [casinomanufacturerid |-> 2, casinomanufacturername |-> "Playtech",
       latestflag |-> 0] }

casinoproviders ==
    { [casinoproviderid |-> 1, casinoprovidername |-> "Evolution"] }

currencyrates ==
    { [date |-> D1, tocurrencyid |-> 1, eurorate |-> 92],
      [date |-> D2, tocurrencyid |-> 1, eurorate |-> 92] }

\* the rows casinodaily is drawn from: all dimensions matched; no latest
\* manufacturer, no provider and no rate; a user without country; no user
DailyRows ==
    << [date |-> D1, userid |-> 1, ggr |-> 100, returns |-> 20,
        casinomanufacturerid |-> 1, casinoproviderid |-> 1, currencyid |-> 1],
       [date |-> D2, userid |-> 1, ggr |-> 100, returns |-> 20,
        casinomanufacturerid |-> 2, casinoproviderid |-> 2, currencyid |-> 2],
       [date |-> D1, userid |-> 2, ggr |-> 100, returns |-> 20,
        casinomanufacturerid |-> 1, casinoproviderid |-> 1, currencyid |-> 1],
       [date |-> D1, userid |-> 3, ggr |-> 100, returns |-> 20,
        casinomanufacturerid |-> 1, casinoproviderid |-> 1, currencyid |-> 1] >>

\* the command-line words argv is drawn from
T_D1      == <<"2","0","2","5","-","0","3","-","0","1">>
T_D2      == <<"2","0","2","5","-","0","3","-","1","0">>
T_D1short == <<"2","0","2","5","-","3","-","1">>
T_Feb30   == <<"2","0","2","5","-","0","2","-","3","0">>
T_NoDash  == <<"2","0","2","5","0","3","1","0">>
ArgWords == {T_D1, T_D2, T_D1short, T_Feb30, T_NoDash}

-----------------------------------------------------------------------------
(* extract_data *)

\* Python truth value of a nullable string
Truthy(o) == ~IsNull(o) /\ Val(o) # <<>>

\* the where clause built from start_date and end_date
date_filter(d, sd, ed) ==
    IF Truthy(sd) /\ Truthy(ed) THEN d >= ToDate(Val(sd)) /\ d <= ToDate(Val(ed))
    ELSE IF Truthy(sd) THEN d = ToDate(Val(sd))
    ELSE TRUE

\* the right side of a left join: the matches, or one all-NULL row
LeftJoin(S) == IF S = {} THEN {None} ELSE {Some(x) : x \in S}

latest_manufacturers == {m \in casinomanufacturers : m.latestflag = 1}

\* the rows of the join that come from row i of casinodaily
JoinOf(cds, i) ==
    LET cd == cds[i] IN
    { [i |-> i, u |-> u, lm |-> lm, cp |-> cp, cr |-> cr] :
        u  \in {u \in users : u.user_id = cd.userid},
        lm \in LeftJoin({m \in latest_manufacturers :
                           m.casinomanufacturerid = cd.casinomanufacturerid}),
        cp \in LeftJoin({p \in casinoproviders :
                           p.casinoproviderid = cd.casinoproviderid}),
        cr \in LeftJoin({c \in currencyrates :
                           c.date = cd.date /\ c.tocurrencyid = cd.currencyid}) }

\* the select list
SelectRow(cds, j) ==
    LET cd == cds[j.i] IN
    [date      |-> cd.date,
     country   |-> j.u.country,
     sex       |-> str_upper(sql_trim(j.u.sex)),
     birthdate |-> j.u.birthdate,
     vipstatus |-> sql_trim(j.u.vipstatus),
     ggr       |-> Some(cd.ggr),
     returns   |-> Some(cd.returns),
     eurorate  |-> IF IsNull(j.cr) THEN None ELSE Some(Val(j.cr).eurorate),
     casinomanufacturername |->
         IF IsNull(j.lm) THEN None ELSE Some(Val(j.lm).casinomanufacturername),
     casinoprovidername |->
         IF IsNull(j.cp) THEN None ELSE Some(Val(j.cp).casinoprovidername),
     currencyid |-> cd.currencyid]

\* the joined rows that pass the date filter
Selected(cds, sd, ed) ==
    {j \in UNION {JoinOf(cds, i) : i \in DOMAIN cds} :
        date_filter(cds[j.i].date, sd, ed)}

\* every result the query may return: the selected rows in some order that
\* is ascending by date (rows of equal date come in any order)
extract_data(cds, sd, ed) ==
    LET S == Selected(cds, sd, ed)
        n == Cardinality(S)
    IN  { [k \in 1..n |-> SelectRow(cds, f[k])] :
            f \in {g \in [1..n -> S] :
                     /\ \A a, b \in 1..n : a # b => g[a] # g[b]
                     /\ \A a, b \in 1..n :
                          a < b => cds[g[a].i].date <= cds[g[b].i].date} }

-----------------------------------------------------------------------------
(* gold_summary and load_data *)

NaturalKey(r) ==
    <<r.date, r.country, r.sex, r.agegroup, r.vipstatus,
      r.casinomanufacturername, r.casinoprovidername, r.ggr_eur, r.returns_eur>>

KeyHasNull(r) ==
    IsNull(r.country) \/ IsNull(r.casinomanufacturername)
        \/ IsNull(r.casinoprovidername)

\* the unique constraint: two rows conflict when their keys are equal and
\* no key column is NULL (NULLs are distinct)
Conflict(g, r) == NaturalKey(g) = NaturalKey(r) /\ ~KeyHasNull(r)

NewRow(r, id, ts) ==
    [id |-> id, date |-> r.date, country |-> r.country, sex |-> r.sex,
     agegroup |-> r.agegroup, vipstatus |-> r.vipstatus,
     casinomanufacturername |-> r.casinomanufacturername,
     casinoprovidername |-> r.casinoprovidername,
     ggr_eur |-> r.ggr_eur, returns_eur |-> r.returns_eur,
     created_at |-> ts, updated_at |-> ts]

\* do_update that also resets created_at (the conflict row replaced)
do_update_overwrite(g, ts) == [g EXCEPT !.updated_at = ts, !.created_at = ts]

\* on conflict ... do update set updated_at = current_timestamp
do_update(g, ts) == [g EXCEPT !.updated_at = ts]

\* One "insert ... values ... on conflict do update" statement over recs.
\* Every proposed row draws an id from the sequence.  A proposed row that
\* conflicts with a row this statement already inserted or updated raises
\* "ON CONFLICT DO UPDATE command cannot affect row a second time".
RECURSIVE insert_on_conflict(_, _, _, _, _)
insert_on_conflict(tbl, recs, id, ts, affected) ==
    IF recs = <<>> THEN [ok |-> TRUE, tbl |-> tbl, nextid |-> id]
    ELSE LET r   == Head(recs)
             hit == {g \in tbl : Conflict(g, r)}
         IN  IF hit = {}
             THEN insert_on_conflict(tbl \cup {NewRow(r, id, ts)}, Tail(recs),
                                     id + 1, ts, affected \cup {id})
             ELSE LET g == CHOOSE g \in hit : TRUE IN
                  IF g.id \in affected
                  THEN [ok |-> FALSE, tbl |-> tbl, nextid |-> id + 1]
                  ELSE insert_on_conflict((tbl \ {g}) \cup {do_update(g, ts)},
                                          Tail(recs), id + 1, ts,
                                          affected \cup {g.id})

\* the page execute_values sends after `done` records were sent
NextPage(recs, done) ==
    SubSeq(recs, done + 1,
           IF done + PageSize < Len(recs) THEN done + PageSize ELSE Len(recs))

-----------------------------------------------------------------------------
(* main *)

Stages == {"connect", "create_target_table", "extract_data",
           "transform_data", "load_data"}

\* usage_error without the start_dt > end_dt check
usage_error_unordered(av) ==
    IF Len(av) = 1 THEN ~strptime(av[1]).ok
    ELSE IF Len(av) = 2 THEN ~strptime(av[1]).ok \/ ~strptime(av[2]).ok
    ELSE Len(av) > 2

\* the argument checks of main: TRUE when main calls sys.exit(1)
usage_error(av) ==
    IF Len(av) = 1 THEN ~strptime(av[1]).ok
    ELSE IF Len(av) = 2
         THEN IF ~strptime(av[1]).ok \/ ~strptime(av[2]).ok THEN TRUE
              ELSE LET a == strptime(av[1])
                       b == strptime(av[2])
                   IN  DaysFromCivil(a.y, a.m, a.d) > DaysFromCivil(b.y, b.m, b.d)
    ELSE Len(av) > 2

RunEntry(code, g) ==
    [run |-> runs, status |-> code, count |-> Cardinality(g)]

\* the process ends with status code; the connection, if any, is closed and
\* an uncommitted transaction is discarded
Exit(code, e) ==
    /\ pc' = "exited"
    /\ err' = e
    /\ exitcode' = code
    /\ connOpen' = FALSE
    /\ tx' = gold
    /\ runlog' = Append(runlog, RunEntry(code, gold))

NonDecreasing(f) == \A a, b \in DOMAIN f : a < b => f[a] <= f[b]

Init ==
    /\ argv \in UNION {[1..n -> ArgWords] : n \in 0..MaxArgs}
    /\ casinodaily \in
         { [k \in DOMAIN f |-> DailyRows[f[k]]] :
             f \in {g \in UNION {[1..n -> DOMAIN DailyRows] : n \in 0..MaxRows} :
                      NonDecreasing(g)} }
    /\ pc = "start"
    /\ start_date = None
    /\ end_date = None
    /\ connOpen = FALSE
    /\ called = {}
    /\ tableExists = FALSE
    /\ gold = {}
    /\ tx = {}
    /\ nextid = 1
    /\ df = <<>>
    /\ df_transformed = <<>>
    /\ page = 0
    /\ exitcode = -1
    /\ runs = 1
    /\ goldAtStart = {}
    /\ runlog = <<>>
    /\ err = ""

\* main, argument checks fail: message and sys.exit(1)
UsageError ==
    /\ pc = "start"
    /\ usage_error(argv)
    /\ Exit(1, "usage")
    /\ UNCHANGED <<argv, casinodaily, start_date, end_date, called,
                   tableExists, gold, nextid, df, df_transformed, page,
                   runs, goldAtStart>>

\* main, argument checks pass
ParseArgs ==
    /\ pc = "start"
    /\ ~usage_error(argv)
    /\ start_date' = IF Len(argv) >= 1 THEN Some(argv[1]) ELSE None
    /\ end_date' = IF Len(argv) = 2 THEN Some(argv[2]) ELSE None
    /\ pc' = "connect"
    /\ UNCHANGED <<argv, casinodaily, connOpen, called, tableExists, gold, tx,
                   nextid, df, df_transformed, page, exitcode, runs,
                   goldAtStart, runlog, err>>

\* psycopg2.connect succeeds
Connect ==
    /\ pc = "connect"
    /\ connOpen' = TRUE
    /\ called' = called \cup {"connect"}
    /\ pc' = "create"
    /\ UNCHANGED <<argv, casinodaily, start_date, end_date, tableExists, gold,
                   tx, nextid, df, df_transformed, page, exitcode, runs,
                   goldAtStart, runlog, err>>

\* psycopg2.connect raises: "ETL failed", sys.exit(1), conn is None
ConnectFail ==
    /\ pc = "connect"
    /\ called' = called \cup {"connect"}
    /\ Exit(1, "connect")
    /\ UNCHANGED <<argv, casinodaily, start_date, end_date, tableExists, gold,
                   nextid, df, df_transformed, page, runs, goldAtStart>>

\* create table / index if not exists, commit
CreateTargetTable ==
    /\ pc = "create"
    /\ called' = called \cup {"create_target_table"}
    /\ tableExists' = TRUE
    /\ pc' = "extract"
    /\ UNCHANGED <<argv, casinodaily, start_date, end_date, connOpen, gold, tx,
                   nextid, df, df_transformed, page, exitcode, runs,
                   goldAtStart, runlog, err>>

\* the join query returns
ExtractData ==
    /\ pc = "extract"
    /\ called' = called \cup {"extract_data"}
    /\ df' \in extract_data(casinodaily, start_date, end_date)
    /\ pc' = "transform"
    /\ UNCHANGED <<argv, casinodaily, start_date, end_date, connOpen,
                   tableExists, gold, tx, nextid, df_transformed, page,
                   exitcode, runs, goldAtStart, runlog, err>>

\* the join query raises (connectivity or query error)
ExtractFail ==
    /\ pc = "extract"
    /\ called' = called \cup {"extract_data"}
    /\ Exit(1, "query")
    /\ UNCHANGED <<argv, casinodaily, start_date, end_date, tableExists, gold,
                   nextid, df, df_transformed, page, runs, goldAtStart>>

TransformData ==
    /\ pc = "transform"
    /\ called' = called \cup {"transform_data"}
    /\ df_transformed' = transform_data(df)
    /\ pc' = IF transform_data(df) = <<>> THEN "nodata" ELSE "load"
    /\ UNCHANGED <<argv, casinodaily, start_date, end_date, connOpen,
                   tableExists, gold, tx, nextid, df, page, exitcode, runs,
                   goldAtStart, runlog, err>>

\* NoData treated as a failure
NoData_fails ==
    /\ pc = "nodata"
    /\ Exit(1, "no data")
    /\ UNCHANGED <<argv, casinodaily, start_date, end_date, called,
                   tableExists, gold, nextid, df, df_transformed, page,
                   runs, goldAtStart>>

\* main, df_transformed.empty: "No data found to process", success
NoData ==
    /\ pc = "nodata"
    /\ Exit(0, "")
    /\ UNCHANGED <<argv, casinodaily, start_date, end_date, called,
                   tableExists, gold, nextid, df, df_transformed, page,
                   runs, goldAtStart>>

\* load_data: execute_values sends the next page and the statement succeeds
LoadPage ==
    /\ pc = "load"
    /\ df_transformed # <<>>
    /\ page < Len(df_transformed)
    /\ LET res == insert_on_conflict(tx, NextPage(df_transformed, page),
                                     nextid, runs, {})
       IN  /\ res.ok
           /\ tx' = res.tbl
           /\ nextid' = res.nextid
    /\ page' = page + Len(NextPage(df_transformed, page))
    /\ called' = called \cup {"load_data"}
    /\ UNCHANGED <<argv, casinodaily, pc, start_date, end_date, connOpen,
                   tableExists, gold, df, df_transformed, exitcode, runs,
                   goldAtStart, runlog, err>>

\* load_data: the statement of the next page raises the cardinality
\* violation; main reports it, exits 1 and closes the connection
LoadPageError ==
    /\ pc = "load"
    /\ page < Len(df_transformed)
    /\ LET res == insert_on_conflict(tx, NextPage(df_transformed, page),
                                     nextid, runs, {})
       IN  /\ ~res.ok
           /\ nextid' = res.nextid
    /\ called' = called \cup {"load_data"}
    /\ Exit(1, "cardinality_violation")
    /\ UNCHANGED <<argv, casinodaily, start_date, end_date, tableExists, gold,
                   df, df_transformed, page, runs, goldAtStart>>

\* LoadFail with the executed pages committed (each page its own commit)
LoadFail_keeps_pages ==
    /\ pc = "load"
    /\ called' = called \cup {"load_data"}
    /\ gold' = tx
    /\ tx' = tx
    /\ pc' = "exited"
    /\ err' = "load_failure"
    /\ exitcode' = 1
    /\ connOpen' = FALSE
    /\ runlog' = Append(runlog, RunEntry(1, tx))
    /\ UNCHANGED <<argv, casinodaily, start_date, end_date, tableExists,
                   nextid, df, df_transformed, page, runs, goldAtStart>>

\* load_data: any other failure (connection lost, statement or commit
\* refused) before the commit took effect
LoadFail ==
    /\ pc = "load"
    /\ called' = called \cup {"load_data"}
    /\ Exit(1, "load_failure")
    /\ UNCHANGED <<argv, casinodaily, start_date, end_date, tableExists, gold,
                   nextid, df, df_transformed, page, runs, goldAtStart>>

\* load_data: conn.commit() after the last page
Commit ==
    /\ pc = "load"
    /\ page = Len(df_transformed)
    /\ gold' = tx
    /\ pc' = "summary"
    /\ UNCHANGED <<argv, casinodaily, start_date, end_date, connOpen, called,
                   tableExists, tx, nextid, df, df_transformed, page,
                   exitcode, runs, goldAtStart, runlog, err>>

\* show_summary, "ETL completed successfully!", conn.close()
ShowSummary ==
    /\ pc = "summary"
    /\ Exit(0, "")
    /\ UNCHANGED <<argv, casinodaily, start_date, end_date, called,
                   tableExists, gold, nextid, df, df_transformed, page, runs,
                   goldAtStart>>

\* the same command is run again over the unchanged source tables
Rerun ==
    /\ pc = "exited"
    /\ runs < MaxRuns
    /\ runs' = runs + 1
    /\ pc' = "start"
    /\ start_date' = None
    /\ end_date' = None
    /\ called' = {}
    /\ df' = <<>>
    /\ df_transformed' = <<>>
    /\ page' = 0
    /\ exitcode' = -1
    /\ goldAtStart' = gold
    /\ err' = ""
    /\ UNCHANGED <<argv, casinodaily, connOpen, tableExists, gold, tx, nextid,
                   runlog>>

Next ==
    \/ UsageError
    \/ ParseArgs
    \/ Connect
    \/ ConnectFail
    \/ CreateTargetTable
    \/ ExtractData
    \/ ExtractFail
    \/ TransformData
    \/ NoData
    \/ LoadPage
    \/ LoadPageError
    \/ LoadFail
    \/ Commit
    \/ ShowSummary
    \/ Rerun

Spec == Init /\ [][Next]_vars

-----------------------------------------------------------------------------
(* transform_data applied to frames drawn from bounded sets *)

\* (date - birthdate).dt.days of the sample rows: both sides of every band
\* edge, the edges that are whole days, and a birthdate after the date
DaySamples == {-1, 0, 1, 6574, 6575, 7305, 7670, 7671, 9861, 9862, 12053,
               12054, 14975, 14976, 18262, 18263, 40000}

VipSamples ==
    { <<" ","n","o","t"," ","v","i","p"," ">>,
      <<" "," ","n","o","t"," ","v","i","p"," "," ">>,
      <<"b","r","o","n","z"," ","e">>,
      <<"B","R","O","N","Z"," ","E">>,
      <<"\t","B","r","o","n","z"," ","E"," ">>,
      <<"b","r","o","n","z","e">>,
      <<"G","o","l","d">>,
      <<" ","E","L","I","T","E"," ">>,
      <<"e","l","i"," ","t"," ","e">>,
      <<"P","o","t","e","n","t","i","a","l">>,
      <<"n","o","t"," "," ","v","i","p">>,
      <<"N","o","t"," ","V","I","P">>,
      <<>> }

SampleRow(days, vip, ggr, rate, mfr, prov) ==
    [date |-> D2, country |-> Some("DE"), sex |-> <<"M">>,
     birthdate |-> D2 - days, vipstatus |-> vip, ggr |-> ggr,
     returns |-> Some(20), eurorate |-> rate,
     casinomanufacturername |-> mfr, casinoprovidername |-> prov,
     currencyid |-> 1]

SampleRows ==
    { SampleRow(days, vip, ggr, rate, mfr, prov) :
        days \in DaySamples, vip \in VipSamples,
        ggr \in {None, Some(100), Some(-50)},
        rate \in {None, Some(92), Some(0)},
        mfr \in {None, Some("NetEnt")},
        prov \in {None, Some("Evolution")} }

PairRows ==
    { SampleRow(9000, S_Bronze, Some(100), rate, mfr, Some("Evolution")) :
        rate \in {None, Some(92)}, mfr \in {None, Some("NetEnt")} }

SampleFrames ==
    {<<>>} \cup {<<r>> : r \in SampleRows}
           \cup {<<r, q>> : r \in PairRows, q \in PairRows}

InitT ==
    /\ argv = <<>>
    /\ casinodaily = <<>>
    /\ pc = "t_input"
    /\ start_date = None
    /\ end_date = None
    /\ connOpen = FALSE
    /\ called = {}
    /\ tableExists = FALSE
    /\ gold = {}
    /\ tx = {}
    /\ nextid = 1
    /\ df \in SampleFrames
    /\ df_transformed = <<>>
    /\ page = 0
    /\ exitcode = -1
    /\ runs = 1
    /\ goldAtStart = {}
    /\ runlog = <<>>
    /\ err = ""

ApplyTransform ==
    /\ pc = "t_input"
    /\ df_transformed' = transform_data(df)
    /\ pc' = "t_output"
    /\ UNCHANGED <<argv, casinodaily, start_date, end_date, connOpen, called,
                   tableExists, gold, tx, nextid, df, page, exitcode, runs,
                   goldAtStart, runlog, err>>

NextT == ApplyTransform

SpecT == InitT /\ [][NextT]_vars

-----------------------------------------------------------------------------
(* Properties of transform_data, checked under SpecT *)

Transformed == pc = "t_output"

\* the seven bands [lo, hi) with their labels, as the specification lists them
Bands ==
    { <<0, 18, "Under 18">>, <<18, 21, "18-20">>, <<21, 27, "21-26">>,
      <<27, 33, "27-32">>, <<33, 41, "33-40">>, <<41, 50, "41-50">>,
      <<50, 999, "50+">> }

\* age = num / den lies in band b
InBand(num, den, b) == b[1] * den <= num /\ num < b[2] * den

\* C6: for every source row with 0 <= age < 999, age = days / 365.25, the
\* age group is the label of the one band [lo, hi) that contains age; an age
\* on a lower edge gets the band that starts there (18.0 gives 18-20); rows
\* with the same day difference get the same label.
C6_AgeGroupBands ==
    Transformed =>
      /\ \A i \in DOMAIN df :
           LET days == df[i].date - df[i].birthdate IN
           (0 <= 4 * days /\ 4 * days < 999 * 1461) =>
             /\ Cardinality({b \in Bands : InBand(4 * days, 1461, b)}) = 1
             /\ \A b \in Bands :
                  InBand(4 * days, 1461, b) => df_transformed[i].agegroup = b[3]
      /\ \A b \in Bands : cut(b[1] * 4, 4) = b[3]
      /\ cut(18 * 1461, 1461) = "18-20"

\* a row whose age is exactly on the lower edge 0 got "Under 18", and the
\* edge 18.0 lies in 18-20
C6_Witness ==
    /\ Transformed
    /\ Len(df) = 1
    /\ df[1].date - df[1].birthdate = 0
    /\ df_transformed[1].agegroup = "Under 18"

\* t is raw without its outer whitespace, every letter in upper case
IsUpperTrimOf(t, raw) ==
    \E a, b \in 0..Len(raw) :
      /\ a + b <= Len(raw)
      /\ \A i \in 1..a : raw[i] \in PyWhitespace
      /\ \A i \in (Len(raw) - b + 1)..Len(raw) : raw[i] \in PyWhitespace
      /\ a + b < Len(raw) =>
           raw[a + 1] \notin PyWhitespace /\ raw[Len(raw) - b] \notin PyWhitespace
      /\ Len(t) = Len(raw) - a - b
      /\ \A i \in 1..Len(t) :
           \/ \E k \in 1..26 : raw[a + i] = LowerChars[k] /\ t[i] = UpperChars[k]
           \/ (\A k \in 1..26 : raw[a + i] # LowerChars[k]) /\ t[i] = raw[a + i]

\* the lookup table M of the specification
M(t) ==
    CASE t = <<"N","O","T"," ","V","I","P">> -> <<"N","o","t"," ","V","I","P">>
      [] t = <<"P","O","T","E","N","T","I","A","L">>
             -> <<"P","o","t","e","n","t","i","a","l">>
      [] t = <<"B","R","O","N","Z"," ","E">> -> <<"B","r","o","n","z","e">>
      [] t = <<"E","L","I"," ","T"," ","E">> -> <<"E","l","i","t","e">>
      [] OTHER -> t

\* C7: the output vipstatus is M(upper(trim(raw))): the four keys map to
\* their labels, every other value passes through trimmed and upper-cased;
\* "bronz e" in any case and outer whitespace gives Bronze, "Gold" gives
\* GOLD and " ELITE " gives ELITE.
C7_VipNormalization ==
    Transformed =>
      \A i \in DOMAIN df :
        LET raw == df[i].vipstatus
            out == df_transformed[i].vipstatus IN
        /\ \E t \in {out, S_NOT_VIP, S_POTENTIAL, S_BRONZ_E, S_ELI_T_E} :
             IsUpperTrimOf(t, raw) /\ out = M(t)
        /\ raw \in {<<"b","r","o","n","z"," ","e">>,
                    <<"\t","B","r","o","n","z"," ","E"," ">>}
             => out = <<"B","r","o","n","z","e">>
        /\ raw = <<"G","o","l","d">> => out = <<"G","O","L","D">>
        /\ raw = <<" ","E","L","I","T","E"," ">> => out = <<"E","L","I","T","E">>

\* a mixed-case "Bronz E" wrapped in a tab and a blank came out as Bronze
C7_Witness ==
    /\ Transformed
    /\ Len(df) = 1
    /\ df[1].vipstatus = <<"\t","B","r","o","n","z"," ","E"," ">>
    /\ df_transformed[1].vipstatus = <<"B","r","o","n","z","e">>

\* C8: transform_data emits one output row per source row, none omitted;
\* with eurorate present ggr_eur = ggr * eurorate and returns_eur = returns *
\* eurorate, with eurorate absent both are 0.  (Where the amount itself is
\* absent there is no product and the claim states nothing.)
C8_CurrencyConversion ==
    Transformed =>
      /\ Len(df_transformed) = Len(df)
      /\ \A i \in DOMAIN df :
           /\ df[i].eurorate = <<>> =>
                df_transformed[i].ggr_eur = 0 /\ df_transformed[i].returns_eur = 0
           /\ (df[i].eurorate # <<>> /\ df[i].ggr # <<>>) =>
                df_transformed[i].ggr_eur = df[i].ggr[1] * df[i].eurorate[1]
           /\ (df[i].eurorate # <<>> /\ df[i].returns # <<>>) =>
                df_transformed[i].returns_eur
                  = df[i].returns[1] * df[i].eurorate[1]

\* a frame of two rows, one converted at 0.92 and one without a rate, both
\* present in the output
C8_Witness ==
    /\ Transformed
    /\ Len(df) = 2
    /\ df[1].eurorate = <<92>> /\ df_transformed[1].ggr_eur = 9200
    /\ df_transformed[1].returns_eur = 1840
    /\ df[2].eurorate = <<>> /\ df_transformed[2].ggr_eur = 0

-----------------------------------------------------------------------------
(* Properties of the pipeline, checked under Spec *)

\* C1: when the whole pipeline runs twice in succession over unchanged
\* source data, gold_summary has as many rows after the second run as after
\* the first.
C1_IdempotentRerun ==
    \A k \in 1..(Len(runlog) - 1) :
      (runlog[k].status = 0 /\ runlog[k + 1].status = 0)
        => runlog[k + 1].count = runlog[k].count

BusinessColumns(g) ==
    <<g.date, g.country, g.sex, g.agegroup, g.vipstatus,
      g.casinomanufacturername, g.casinoprovidername, g.ggr_eur, g.returns_eur>>

\* C2: every step keeps every stored row: same id, same nine business
\* columns, same created_at; updated_at changes only on a row whose natural
\* key equals that of a row of the batch being loaded; no row is deleted.
C2_ExistingRowsPreserved ==
    [][\A g \in gold :
         \E h \in gold' :
           /\ h.id = g.id
           /\ BusinessColumns(h) = BusinessColumns(g)
           /\ h.created_at = g.created_at
           /\ h.updated_at # g.updated_at =>
                \E i \in DOMAIN df_transformed :
                  BusinessColumns(df_transformed[i]) = BusinessColumns(g)]_vars

\* a stored row was touched by a later run
C2_Witness ==
    /\ runs = 2
    /\ \E g \in gold : g.created_at = 1 /\ g.updated_at = 2
    /\ \E g \in gold : g.created_at = 1 /\ g.updated_at = 1

\* C3: load_data is one transaction: nothing of the batch is visible in
\* gold_summary before the commit; a load that fails, also on a later page
\* after earlier pages were executed, leaves gold_summary as it was before
\* the run and the process exits non-zero; a load that completes has
\* committed every row of the batch.
C3_AtomicLoad ==
    /\ pc = "load" => gold = goldAtStart
    /\ (pc = "exited" /\ "load_data" \in called /\ exitcode # 0) =>
         gold = goldAtStart /\ exitcode = 1
    /\ (pc = "summary" \/ (pc = "exited" /\ "load_data" \in called
                             /\ exitcode = 0)) =>
         \A i \in DOMAIN df_transformed :
           \E g \in gold :
             BusinessColumns(g) = BusinessColumns(df_transformed[i])

\* the second page failed after the first page was executed, on a table
\* that already held rows
C3_Witness ==
    /\ pc = "exited"
    /\ err = "load_failure"
    /\ exitcode = 1
    /\ page >= PageSize
    /\ page < Len(df_transformed)
    /\ goldAtStart # {}
    /\ gold = goldAtStart

\* s is a four-digit year, a month of ml characters and a day of dl
\* characters separated by "-"
DatePattern(s, ml, dl) ==
    /\ Len(s) = 6 + ml + dl
    /\ \A i \in 1..4 : IsDigit(s[i])
    /\ s[5] = "-"
    /\ \A i \in 6..(5 + ml) : IsDigit(s[i])
    /\ ml = 1 => s[6] # "0"
    /\ s[6 + ml] = "-"
    /\ IsDigit(s[Len(s)])
    /\ dl = 1 => s[Len(s)] # "0"
    /\ dl = 2 => IsDigit(s[Len(s) - 1]) \/ s[Len(s) - 1] = " "

DateFields(s, ml, dl) ==
    [y |-> NumAt(s, 1, 4), m |-> NumAt(s, 6, ml), d |-> NumAt(s, 7 + ml, dl)]

IsCalendarDate(f) ==
    f.y >= 1 /\ f.m \in 1..12 /\ f.d >= 1 /\ f.d <= DaysInMonth(f.y, f.m)

\* s is a date in the form YYYY-MM-DD
IsYYYYMMDD(s) ==
    DatePattern(s, 2, 2) /\ IsDigit(s[9]) /\ IsCalendarDate(DateFields(s, 2, 2))

\* s is a date that '%Y-%m-%d' accepts: month and day with or without the
\* leading zero
IsAcceptedDate(s) ==
    \E ml, dl \in 1..2 :
      DatePattern(s, ml, dl) /\ IsCalendarDate(DateFields(s, ml, dl))

YMD(s) ==
    LET ml == IF s[7] = "-" THEN 1 ELSE 2 IN DateFields(s, ml, Len(s) - 6 - ml)

IsAfter(s, t) ==
    LET a == YMD(s)
        b == YMD(t)
    IN  \/ a.y > b.y
        \/ a.y = b.y /\ a.m > b.m
        \/ a.y = b.y /\ a.m = b.m /\ a.d > b.d

NothingStarted ==
    /\ called = {}
    /\ ~connOpen
    /\ pc \in {"start", "exited"}
    /\ pc = "exited" => exitcode = 1
    /\ gold = goldAtStart

Proceeds == pc = "exited" => "connect" \in called

\* C4 as stated: more than two arguments, an argument that is not a date in
\* the form YYYY-MM-DD, or a start after the end, ends the process non-zero
\* before anything is connected or run; otherwise the pipeline proceeds.
C4_AsStated ==
    LET bad == \/ Len(argv) > 2
               \/ \E i \in 1..Len(argv) : ~IsYYYYMMDD(argv[i])
               \/ /\ Len(argv) = 2
                  /\ IsYYYYMMDD(argv[1]) /\ IsYYYYMMDD(argv[2])
                  /\ IsAfter(argv[1], argv[2])
    IN  IF bad THEN NothingStarted ELSE Proceeds

\* C4 (amended): more than two arguments, an argument that strptime with
\* '%Y-%m-%d' rejects (a month or day without its leading zero is accepted),
\* or a start after the end, ends the process non-zero before anything is
\* connected or run; zero arguments, one accepted date, or two accepted
\* dates with start <= end proceed.
C4_UsageErrors ==
    LET bad == \/ Len(argv) > 2
               \/ \E i \in 1..Len(argv) : ~IsAcceptedDate(argv[i])
               \/ /\ Len(argv) = 2
                  /\ IsAcceptedDate(argv[1]) /\ IsAcceptedDate(argv[2])
                  /\ IsAfter(argv[1], argv[2])
    IN  IF bad THEN NothingStarted ELSE Proceeds

\* two well-formed dates in the wrong order ended the run as a usage error
C4_Witness ==
    /\ pc = "exited"
    /\ exitcode = 1
    /\ err = "usage"
    /\ Len(argv) = 2
    /\ IsYYYYMMDD(argv[1]) /\ IsYYYYMMDD(argv[2])
    /\ IsAfter(argv[1], argv[2])

\* C5: when extract_data returns no rows, transform_data returns an empty
\* frame, load_data is not run, gold_summary is unchanged by the run and the
\* run ends with status 0.
C5_EmptyExtraction ==
    /\ (pc = "transform" /\ df = <<>>) => transform_data(df) = <<>>
    /\ ("transform_data" \in called /\ df = <<>>) =>
         /\ df_transformed = <<>>
         /\ "load_data" \notin called
         /\ gold = goldAtStart
         /\ tx = gold
         /\ pc \in {"nodata", "exited"}
         /\ pc = "exited" => exitcode = 0 /\ err = ""

\* a run over a non-empty casinodaily whose date filter matched nothing
\* ended with status 0
C5_Witness ==
    /\ pc = "exited"
    /\ exitcode = 0
    /\ "transform_data" \in called
    /\ df = <<>>
    /\ casinodaily # <<>>
    /\ start_date # <<>>

\* C9: no row of gold_summary has an absent or empty manufacturer or
\* provider name; a name absent from the source row is loaded as 'Unknown',
\* a present name unchanged.
C9_NameDefaulting ==
    /\ \A g \in gold \cup tx :
         /\ g.casinomanufacturername # <<>> /\ g.casinomanufacturername # <<"">>
         /\ g.casinoprovidername # <<>> /\ g.casinoprovidername # <<"">>
    /\ "transform_data" \in called =>
         \A i \in DOMAIN df :
           /\ df_transformed[i].casinomanufacturername =
                (IF df[i].casinomanufacturername = <<>> THEN <<"Unknown">>
                 ELSE df[i].casinomanufacturername)
           /\ df_transformed[i].casinoprovidername =
                (IF df[i].casinoprovidername = <<>> THEN <<"Unknown">>
                 ELSE df[i].casinoprovidername)
    /\ \A g \in tx :
         g.created_at = runs =>
           \E i \in DOMAIN df_transformed :
             /\ g.casinomanufacturername
                  = df_transformed[i].casinomanufacturername
             /\ g.casinoprovidername = df_transformed[i].casinoprovidername

\* the table holds a row loaded with both names defaulted and a row loaded
\* with both names present
C9_Witness ==
    /\ \E i \in DOMAIN df :
         df[i].casinomanufacturername = <<>> /\ df[i].casinoprovidername = <<>>
    /\ \E g \in gold :
         /\ g.casinomanufacturername = <<"Unknown">>
         /\ g.casinoprovidername = <<"Unknown">>
    /\ \E g \in gold :
         /\ g.casinomanufacturername = <<"NetEnt">>
         /\ g.casinoprovidername = <<"Evolution">>

HasDuplicateKeys(batch) ==
    \E i, j \in DOMAIN batch :
      i # j /\ BusinessColumns(batch[i]) = BusinessColumns(batch[j])

\* C10: when the batch handed to load_data has rows with the same natural
\* 9-tuple, the load completes and commits (no failure from outside
\* assumed), and gold_summary then holds exactly one row for each natural
\* key among the batch and the rows stored before.
C10_DuplicateKeysInBatch ==
    (/\ pc = "exited"
     /\ "load_data" \in called
     /\ err # "load_failure"
     /\ HasDuplicateKeys(df_transformed)) =>
        /\ exitcode = 0
        /\ \A k \in {BusinessColumns(g) : g \in goldAtStart}
                 \cup {BusinessColumns(df_transformed[i]) :
                         i \in DOMAIN df_transformed} :
             Cardinality({g \in gold : BusinessColumns(g) = k}) = 1

====
